---- MODULE Spec2Model ----
(***************************************************************************)
(* Session state machine and cumulative time tracking of the office Wi-Fi  *)
(* tracker: app/session_manager.py over app/mongodb_store.py, driven by    *)
(* the timer loop of app/timer_engine.py and the startup and connectivity  *)
(* loops of app/main.py.                                                   *)
(*                                                                         *)
(* Time is the UTC clock in seconds, sampled on a grid of Step seconds.    *)
(* The calendar date (get_today_date_ist) is a day number.  The horizon    *)
(* MaxTime is shorter than a day, so the date changes at most once, at an  *)
(* arbitrary instant: the dates are day 1 and day 2.  None is NoTime for   *)
(* timestamps, NoInt for integers and NoDate for dates.                    *)
(***************************************************************************)
EXTENDS Integers, FiniteSets, Sequences, TLC

\* ---------------------------------------------------------------- bounds
Step == 30
MaxTime == 150
MaxSessions == 2
MaxOrphans == 1
MaxPairs == 3
MaxBaseline == 2

\* ------------------------------------------------------ program constants
SecondsPerMinute == 60
RecordGraceMinutes == 2
DefaultGraceMinutes == 2
WorkDurationHours == 4
BufferMinutes == 10
TestDurationMinutes == 2
TestMode == TRUE

NoTime == -1
NoInt == -1
NoDate == 0

Dates == {1, 2}
\* An SSID is a sequence of characters; NoSsid stands for None.
NoSsid == <<"None">>
OfficeWifiName == <<"O", "f", "1">>
Ssids == {<<" ", "o", "F", "-", "1">>, <<"x">>}
PlaceholderName ==
    <<"y", "o", "u", "r", "o", "f", "f", "i", "c", "e",
      "w", "i", "f", "i", "n", "a", "m", "e">>
GraceSettings == {1, DefaultGraceMinutes}

Max(a, b) == IF a >= b THEN a ELSE b

\* str.isspace, str.isalnum and str.casefold on the model's characters.
IsSpace(ch) == ch = " "

IsAlnum(ch) == ch \notin {" ", "-", "_", "."}

Casefold(ch) ==
    CASE ch = "O" -> "o" [] ch = "F" -> "f" [] ch = "X" -> "x" [] OTHER -> ch

RECURSIVE LStrip(_)
LStrip(raw) ==
    IF raw # <<>> /\ IsSpace(Head(raw)) THEN LStrip(Tail(raw)) ELSE raw

RECURSIVE RStrip(_)
RStrip(raw) ==
    IF raw # <<>> /\ IsSpace(raw[Len(raw)])
    THEN RStrip(SubSeq(raw, 1, Len(raw) - 1)) ELSE raw

\* wifi_detector._normalize_ssid: (ssid or "").strip().casefold(), then the
\* alphanumeric characters only.
_normalize_ssid(ssid) ==
    LET stripped == IF ssid = NoSsid THEN <<>> ELSE RStrip(LStrip(ssid))
        raw == [i \in 1..Len(stripped) |-> Casefold(stripped[i])]
    IN  SelectSeq(raw, IsAlnum)

is_office_ssid(ssid) == _normalize_ssid(ssid) = _normalize_ssid(OfficeWifiName)

\* Python round(seconds / 60): nearest integer, ties to the even one.
PyRoundMinutes(seconds) ==
    LET q == seconds \div SecondsPerMinute
        r == seconds % SecondsPerMinute
    IN  IF 2 * r < SecondsPerMinute THEN q
        ELSE IF 2 * r > SecondsPerMinute THEN q + 1
        ELSE IF q % 2 = 0 THEN q ELSE q + 1

\* SessionManager.__init__: target_minutes ignores test mode.
ManagerTargetMinutes == (WorkDurationHours * 60) + BufferMinutes

_resolve_target_minutes ==
    IF TestMode THEN Max(0, TestDurationMinutes)
    ELSE (Max(0, WorkDurationHours) * 60) + Max(0, BufferMinutes)

\* ------------------------------------------------------------ the store
NoDoc ==
    [exists |-> FALSE, ssid |-> NoSsid, is_active |-> FALSE,
     total_minutes |-> 0, completed_4h |-> FALSE, target_minutes |-> 0,
     sessions_count |-> 0, paused_duration_minutes |-> 0,
     session_start_total_minutes |-> NoInt,
     session_start_paused_minutes |-> NoInt,
     grace_period_minutes |-> 0, grace_period_start |-> NoTime,
     has_network_access |-> TRUE, paused_at |-> NoTime,
     current_session_start |-> NoTime]

\* Variant: the insert-only fields are written on every call.
get_or_create_daily_session_set(s, date, ssid, target) ==
    [s EXCEPT ![date] =
        [exists |-> TRUE, ssid |-> ssid, is_active |-> s[date].is_active,
         total_minutes |-> s[date].total_minutes, completed_4h |-> FALSE,
         target_minutes |-> target,
         sessions_count |-> s[date].sessions_count,
         paused_duration_minutes |-> s[date].paused_duration_minutes,
         session_start_total_minutes |-> s[date].session_start_total_minutes,
         session_start_paused_minutes |->
             s[date].session_start_paused_minutes,
         grace_period_minutes |-> RecordGraceMinutes,
         grace_period_start |-> s[date].grace_period_start,
         has_network_access |-> s[date].has_network_access,
         paused_at |-> s[date].paused_at,
         current_session_start |-> s[date].current_session_start]]

get_or_create_daily_session(s, date, ssid, target) ==
    IF s[date].exists THEN s
    ELSE [s EXCEPT ![date] =
            [exists |-> TRUE, ssid |-> ssid, is_active |-> FALSE,
             total_minutes |-> 0, completed_4h |-> FALSE,
             target_minutes |-> target, sessions_count |-> 0,
             paused_duration_minutes |-> 0,
             session_start_total_minutes |-> 0,
             session_start_paused_minutes |-> 0,
             grace_period_minutes |-> RecordGraceMinutes,
             grace_period_start |-> NoTime,
             has_network_access |-> TRUE, paused_at |-> NoTime,
             current_session_start |-> NoTime]]

\* Variant: sessions_count is set to 1 instead of incremented.
MongoDBStore_start_session_first(s, date, ssid, t) ==
    IF ~s[date].exists THEN s
    ELSE [s EXCEPT ![date] =
            [@ EXCEPT !.ssid = ssid,
                      !.is_active = TRUE,
                      !.current_session_start = t,
                      !.session_start_total_minutes = s[date].total_minutes,
                      !.session_start_paused_minutes =
                            s[date].paused_duration_minutes,
                      !.grace_period_start = NoTime,
                      !.has_network_access = TRUE,
                      !.paused_at = NoTime,
                      !.sessions_count = 1]]

MongoDBStore_start_session(s, date, ssid, t) ==
    IF ~s[date].exists THEN s
    ELSE [s EXCEPT ![date] =
            [@ EXCEPT !.ssid = ssid,
                      !.is_active = TRUE,
                      !.current_session_start = t,
                      !.session_start_total_minutes = s[date].total_minutes,
                      !.session_start_paused_minutes =
                            s[date].paused_duration_minutes,
                      !.grace_period_start = NoTime,
                      !.has_network_access = TRUE,
                      !.paused_at = NoTime,
                      !.sessions_count = s[date].sessions_count + 1]]

\* Variant: the update has no is_active precondition.
update_elapsed_time_any(s, date, minutes) ==
    IF s[date].exists
    THEN [s EXCEPT ![date] = [@ EXCEPT !.total_minutes = minutes]]
    ELSE s

update_elapsed_time(s, date, minutes) ==
    IF s[date].exists /\ s[date].is_active
    THEN [s EXCEPT ![date] = [@ EXCEPT !.total_minutes = minutes]]
    ELSE s

MongoDBStore_end_session(s, date, final_minutes) ==
    IF s[date].exists /\ s[date].is_active
    THEN [s EXCEPT ![date] =
            [@ EXCEPT !.is_active = FALSE,
                      !.total_minutes = final_minutes,
                      !.current_session_start = NoTime,
                      !.session_start_total_minutes = NoInt,
                      !.session_start_paused_minutes = NoInt,
                      !.grace_period_start = NoTime,
                      !.paused_at = NoTime,
                      !.has_network_access = TRUE]]
    ELSE s

\* Variant: starting the grace period also marks the record inactive.
start_grace_period_inactive(s, date, t) ==
    IF s[date].exists /\ s[date].is_active
    THEN [s EXCEPT ![date] =
            [@ EXCEPT !.grace_period_start = t, !.is_active = FALSE]]
    ELSE s

start_grace_period(s, date, t) ==
    IF s[date].exists /\ s[date].is_active
    THEN [s EXCEPT ![date] = [@ EXCEPT !.grace_period_start = t]]
    ELSE s

\* check_grace_period_status: <<active, expired>>; the elapsed time is
\* compared in seconds instead of fractional minutes.
check_grace_period_status(s, date, t) ==
    IF s[date].exists /\ s[date].is_active
       /\ s[date].grace_period_start # NoTime
    THEN [active |-> TRUE,
          expired |-> (t - s[date].grace_period_start)
                        > s[date].grace_period_minutes * SecondsPerMinute]
    ELSE [active |-> FALSE, expired |-> FALSE]

cancel_grace_period(s, date) ==
    IF s[date].exists
    THEN [s EXCEPT ![date] = [@ EXCEPT !.grace_period_start = NoTime]]
    ELSE s

pause_for_reauth(s, date, t) ==
    IF s[date].exists /\ s[date].is_active
    THEN [s EXCEPT ![date] =
            [@ EXCEPT !.has_network_access = FALSE, !.paused_at = t]]
    ELSE s

resume_after_reauth(s, date, t) ==
    IF s[date].exists /\ s[date].is_active /\ s[date].paused_at # NoTime
    THEN [s EXCEPT ![date] =
            [@ EXCEPT !.has_network_access = TRUE,
                      !.paused_at = NoTime,
                      !.paused_duration_minutes =
                            @ + PyRoundMinutes(t - s[date].paused_at)]]
    ELSE s

\* Variant: the filter matches records that are already completed.
mark_completed_filter(s, date) ==
    IF s[date].exists /\ s[date].completed_4h
    THEN [s EXCEPT ![date] = [@ EXCEPT !.completed_4h = TRUE]]
    ELSE s

mark_completed(s, date) ==
    IF s[date].exists /\ ~s[date].completed_4h
    THEN [s EXCEPT ![date] = [@ EXCEPT !.completed_4h = TRUE]]
    ELSE s

\* Variant: the date filter matches today's record only.
close_stale_sessions_today(s, today_date) ==
    [d \in Dates |->
        IF s[d].exists /\ s[d].is_active /\ d = today_date
        THEN [s[d] EXCEPT !.is_active = FALSE,
                          !.current_session_start = NoTime,
                          !.session_start_total_minutes = NoInt,
                          !.session_start_paused_minutes = NoInt,
                          !.paused_at = NoTime]
        ELSE s[d]]

close_stale_sessions(s, today_date) ==
    [d \in Dates |->
        IF s[d].exists /\ s[d].is_active /\ d # today_date
        THEN [s[d] EXCEPT !.is_active = FALSE,
                          !.current_session_start = NoTime,
                          !.session_start_total_minutes = NoInt,
                          !.session_start_paused_minutes = NoInt,
                          !.paused_at = NoTime]
        ELSE s[d]]

\* Variant: the session's minutes are added to the stored total.
_compute_running_total_minutes_stored(doc, t) ==
    IF doc.current_session_start = NoTime THEN Max(0, doc.total_minutes)
    ELSE
      LET elapsed_seconds == Max(0, t - doc.current_session_start)
          paused_total_minutes == Max(0, doc.paused_duration_minutes)
          session_start_paused_minutes ==
              IF doc.session_start_paused_minutes = NoInt
              THEN paused_total_minutes
              ELSE Max(0, doc.session_start_paused_minutes)
          paused_since_start_minutes ==
              Max(0, paused_total_minutes - session_start_paused_minutes)
          ongoing ==
              IF ~doc.has_network_access /\ doc.paused_at # NoTime
              THEN Max(0, t - doc.paused_at) ELSE 0
          paused_seconds ==
              paused_since_start_minutes * SecondsPerMinute + ongoing
          effective_session_minutes ==
              Max(0, elapsed_seconds - paused_seconds) \div SecondsPerMinute
      IN  Max(0, doc.total_minutes) + effective_session_minutes

\* ------------------------------------------------ elapsed-minutes formula
\* timer_engine._compute_running_total_minutes(doc, now)
_compute_running_total_minutes(doc, t) ==
    IF doc.current_session_start = NoTime THEN Max(0, doc.total_minutes)
    ELSE
      LET elapsed_seconds == Max(0, t - doc.current_session_start)
          paused_total_minutes == Max(0, doc.paused_duration_minutes)
          session_start_paused_minutes ==
              IF doc.session_start_paused_minutes = NoInt
              THEN paused_total_minutes
              ELSE Max(0, doc.session_start_paused_minutes)
          paused_since_start_minutes ==
              Max(0, paused_total_minutes - session_start_paused_minutes)
          ongoing ==
              IF ~doc.has_network_access /\ doc.paused_at # NoTime
              THEN Max(0, t - doc.paused_at) ELSE 0
          paused_seconds ==
              paused_since_start_minutes * SecondsPerMinute + ongoing
          effective_session_minutes ==
              Max(0, elapsed_seconds - paused_seconds) \div SecondsPerMinute
          stored_total == Max(0, doc.total_minutes)
          session_start_total_minutes ==
              IF doc.session_start_total_minutes = NoInt
              THEN Max(0, stored_total - effective_session_minutes)
              ELSE Max(0, doc.session_start_total_minutes)
      IN  session_start_total_minutes + effective_session_minutes

\* ------------------------------------------------------- SessionManager
\* The manager's view of the system: the store and its in-memory fields.
\* task is the wake-up time of the monitor that _grace_period_task refers
\* to while that task is not done; orphans are the wake-up times of
\* monitors still sleeping that the field no longer refers to.  ret is the
\* value the last call returned.


\* SessionManager._calculate_current_total
_calculate_current_total(m, t) ==
    IF m.date = NoDate THEN 0
    ELSE
      LET doc == m.store[m.date]
          start_raw == IF doc.current_session_start # NoTime
                       THEN doc.current_session_start ELSE m.start
      IN
      IF ~doc.exists THEN 0
      ELSE IF start_raw = NoTime THEN Max(0, doc.total_minutes)
      ELSE
        LET elapsed_seconds == Max(0, t - start_raw)
            paused_total_minutes == Max(0, doc.paused_duration_minutes)
            session_start_paused_minutes ==
                IF doc.session_start_paused_minutes = NoInt
                THEN paused_total_minutes
                ELSE doc.session_start_paused_minutes
            paused_since_start_minutes ==
                Max(0, paused_total_minutes - session_start_paused_minutes)
            ongoing ==
                IF ~doc.has_network_access /\ doc.paused_at # NoTime
                THEN Max(0, t - doc.paused_at) ELSE 0
            paused_seconds ==
                paused_since_start_minutes * SecondsPerMinute + ongoing
            effective_session_minutes ==
                Max(0, elapsed_seconds - paused_seconds) \div SecondsPerMinute
            doc_total_minutes == Max(0, doc.total_minutes)
            session_start_total ==
                IF doc.session_start_total_minutes = NoInt
                THEN Max(0, doc_total_minutes - effective_session_minutes)
                ELSE Max(0, doc.session_start_total_minutes)
        IN  session_start_total + effective_session_minutes

\* Variant: without an active date the call still resets and succeeds.
SessionManager_end_session_reset(m, final_minutes, t) ==
    IF m.date = NoDate
    THEN [m EXCEPT !.task = NoTime, !.state = "idle", !.start = NoTime,
                   !.ret = TRUE]
    ELSE
      LET final == IF final_minutes = NoInt
                   THEN _calculate_current_total(m, t) ELSE final_minutes
      IN  [m EXCEPT !.store = MongoDBStore_end_session(m.store, m.date, final),
                    !.task = NoTime,
                    !.state = "idle",
                    !.start = NoTime,
                    !.date = NoDate,
                    !.ret = TRUE]

\* SessionManager.end_session(final_minutes); NoInt stands for None.
SessionManager_end_session(m, final_minutes, t) ==
    IF m.date = NoDate THEN [m EXCEPT !.ret = FALSE]
    ELSE
      LET final == IF final_minutes = NoInt
                   THEN _calculate_current_total(m, t) ELSE final_minutes
      IN  [m EXCEPT !.store = MongoDBStore_end_session(m.store, m.date, final),
                    !.task = NoTime,
                    !.state = "idle",
                    !.start = NoTime,
                    !.date = NoDate,
                    !.ret = TRUE]

\* Variant: the guard ends the old session with a recomputed total.
ForceCloseStale_recomputed(m, date, t) ==
    IF m.date # NoDate /\ m.date # date
    THEN IF m.store[m.date].exists
         THEN SessionManager_end_session(m, NoInt, t)
         ELSE [m EXCEPT !.date = NoDate, !.start = NoTime, !.state = "idle"]
    ELSE m

\* The date-rollover guard at the head of SessionManager.start_session.
ForceCloseStale(m, date, t) ==
    IF m.date # NoDate /\ m.date # date
    THEN IF m.store[m.date].exists
         THEN SessionManager_end_session(m, m.store[m.date].total_minutes, t)
         ELSE [m EXCEPT !.date = NoDate, !.start = NoTime, !.state = "idle"]
    ELSE m

\* SessionManager.start_session(ssid) called on calendar date `date`.
SessionManager_start_session(m, ssid, date, t) ==
    LET m1 == ForceCloseStale(m, date, t)
        s2 == get_or_create_daily_session(m1.store, date, ssid,
                                          ManagerTargetMinutes)
        s3 == MongoDBStore_start_session(s2, date, ssid, t)
        s4 == cancel_grace_period(s3, date)
    IN  [m1 EXCEPT !.store = s4,
                   !.task = NoTime,
                   !.state = "in_office_session",
                   !.start = t,
                   !.date = date,
                   !.ret = TRUE]

\* The store calls of start_session and of end_session, in order; one of
\* them may raise (a transient store failure) before it has written.
\* "none": no call raises.
StartSessionStoreCalls ==
    {"get_daily_status", "get_or_create_daily_session", "start_session",
     "cancel_grace_period"}

EndSessionStoreCalls == {"get_daily_status", "end_session"}

\* SessionManager._calculate_current_total with its try/except: a store
\* read that raises is caught and the method returns 0.
_calculate_current_total_caught(m, t, failed) ==
    IF m.date # NoDate /\ failed = "get_daily_status" THEN 0
    ELSE _calculate_current_total(m, t)

\* SessionManager.end_session when the store call `failed` raises.  The
\* read is the one inside _calculate_current_total, made only without an
\* override; a raising store.end_session is caught by end_session itself.
end_session_store_fails(m, final_minutes, t, failed) ==
    IF m.date = NoDate THEN [m EXCEPT !.ret = FALSE]
    ELSE
      LET final == IF final_minutes = NoInt
                   THEN _calculate_current_total_caught(m, t, failed)
                   ELSE final_minutes
      IN  IF failed = "end_session" THEN [m EXCEPT !.ret = FALSE]
          ELSE SessionManager_end_session(m, final, t)

\* SessionManager.start_session when the store call `failed` raises: the
\* calls before it have been made, the statements after it are skipped
\* and the method returns False.  The read is the one of the rollover
\* guard, made only with an in-memory date other than `date`.
start_session_store_fails(m, ssid, date, t, failed) ==
    LET guarded == m.date # NoDate /\ m.date # date
        m1 == ForceCloseStale(m, date, t)
        s2 == get_or_create_daily_session(m1.store, date, ssid,
                                          ManagerTargetMinutes)
        s3 == MongoDBStore_start_session(s2, date, ssid, t)
    IN  IF failed = "get_daily_status"
        THEN IF guarded THEN [m EXCEPT !.ret = FALSE]
             ELSE SessionManager_start_session(m, ssid, date, t)
        ELSE IF failed = "get_or_create_daily_session"
        THEN [m1 EXCEPT !.ret = FALSE]
        ELSE IF failed = "start_session"
        THEN [m1 EXCEPT !.store = s2, !.ret = FALSE]
        ELSE IF failed = "cancel_grace_period"
        THEN [m1 EXCEPT !.store = s3, !.task = NoTime, !.ret = FALSE]
        ELSE SessionManager_start_session(m, ssid, date, t)

\* SessionManager.handle_disconnect; sleep_minutes is
\* self.grace_period_minutes, the length of the monitor's sleep.
handle_disconnect(m, sleep_minutes, t) ==
    IF m.date = NoDate THEN [m EXCEPT !.ret = FALSE]
    ELSE [m EXCEPT !.store = start_grace_period(m.store, m.date, t),
                   !.state = "in_grace_period",
                   !.orphans = IF m.task = NoTime THEN m.orphans
                               ELSE m.orphans \cup {m.task},
                   !.task = t + sleep_minutes * SecondsPerMinute,
                   !.ret = TRUE]

\* Variant: the woken monitor ends the session without asking the store.
_monitor_grace_period_unchecked(m, t) ==
    IF m.date = NoDate THEN m
    ELSE SessionManager_end_session(m, _calculate_current_total(m, t), t)

\* SessionManager._monitor_grace_period after its sleep has returned.
_monitor_grace_period(m, t) ==
    IF m.date = NoDate THEN m
    ELSE
      LET status == check_grace_period_status(m.store, m.date, t)
      IN  IF status.active /\ status.expired
          THEN SessionManager_end_session(m, _calculate_current_total(m, t), t)
          ELSE m

\* Variant: the probe's answer is written on every call, edge or not.
check_network_connectivity_level(m, has_internet, t) ==
    IF m.date = NoDate THEN [m EXCEPT !.ret = FALSE]
    ELSE
      LET doc == m.store[m.date]
      IN  IF ~doc.exists \/ ~doc.is_active THEN [m EXCEPT !.ret = FALSE]
          ELSE IF ~has_internet
          THEN [m EXCEPT !.store = pause_for_reauth(m.store, m.date, t),
                         !.state = "paused_for_reauth",
                         !.ret = TRUE]
          ELSE [m EXCEPT !.store = resume_after_reauth(m.store, m.date, t),
                         !.state = "in_office_session",
                         !.ret = TRUE]

\* SessionManager.check_network_connectivity with the probe's answer.
check_network_connectivity(m, has_internet, t) ==
    IF m.date = NoDate THEN [m EXCEPT !.ret = FALSE]
    ELSE
      LET doc == m.store[m.date]
      IN  IF ~doc.exists \/ ~doc.is_active THEN [m EXCEPT !.ret = FALSE]
          ELSE IF doc.has_network_access /\ ~has_internet
          THEN [m EXCEPT !.store = pause_for_reauth(m.store, m.date, t),
                         !.state = "paused_for_reauth",
                         !.ret = TRUE]
          ELSE IF ~doc.has_network_access /\ has_internet
          THEN [m EXCEPT !.store = resume_after_reauth(m.store, m.date, t),
                         !.state = "in_office_session",
                         !.ret = TRUE]
          ELSE [m EXCEPT !.ret = TRUE]

\* Variant: a matching session is resumed by starting it again.
recover_session_restart(m, current_ssid, sleep_minutes, date, t) ==
    LET doc == m.store[date]
        same_session_ssid ==
            _normalize_ssid(current_ssid) = _normalize_ssid(doc.ssid)
    IN
    IF ~doc.exists \/ ~doc.is_active THEN [m EXCEPT !.ret = FALSE]
    ELSE IF ~same_session_ssid
    THEN [SessionManager_end_session(
              [m EXCEPT !.date = date, !.start = doc.current_session_start],
              doc.total_minutes, t)
          EXCEPT !.ret = FALSE]
    ELSE SessionManager_start_session(m, doc.ssid, date, t)

\* Variant: a session whose SSID does not match is reported, not ended.
recover_session_keep(m, current_ssid, sleep_minutes, date, t) ==
    LET doc == m.store[date]
        same_session_ssid ==
            _normalize_ssid(current_ssid) = _normalize_ssid(doc.ssid)
    IN
    IF ~doc.exists \/ ~doc.is_active THEN [m EXCEPT !.ret = FALSE]
    ELSE IF ~same_session_ssid THEN [m EXCEPT !.ret = FALSE]
    ELSE [m EXCEPT !.date = date,
                   !.start = doc.current_session_start,
                   !.state = "in_office_session",
                   !.ret = TRUE]

\* Variant: on resuming, completed_4h is looked at before the pause.
recover_session_completed(m, current_ssid, sleep_minutes, date, t) ==
    LET doc == m.store[date]
        same_session_ssid ==
            _normalize_ssid(current_ssid) = _normalize_ssid(doc.ssid)
        on_configured_office_ssid ==
            _normalize_ssid(current_ssid) = _normalize_ssid(OfficeWifiName)
    IN
    IF ~doc.exists \/ ~doc.is_active THEN [m EXCEPT !.ret = FALSE]
    ELSE IF ~same_session_ssid \/ ~on_configured_office_ssid
    THEN [SessionManager_end_session(
              [m EXCEPT !.date = date, !.start = doc.current_session_start],
              doc.total_minutes, t)
          EXCEPT !.ret = FALSE]
    ELSE [m EXCEPT !.date = date,
                   !.start = doc.current_session_start,
                   !.state = IF doc.grace_period_start # NoTime
                             THEN "in_grace_period"
                             ELSE IF doc.completed_4h THEN "completed"
                             ELSE IF ~doc.has_network_access
                             THEN "paused_for_reauth"
                             ELSE "in_office_session",
                   !.orphans = IF doc.grace_period_start # NoTime
                                  /\ m.task # NoTime
                               THEN m.orphans \cup {m.task} ELSE m.orphans,
                   !.task = IF doc.grace_period_start # NoTime
                            THEN t + sleep_minutes * SecondsPerMinute
                            ELSE m.task,
                   !.ret = TRUE]

\* SessionManager.recover_session(current_ssid) on calendar date `date`.
recover_session(m, current_ssid, sleep_minutes, date, t) ==
    LET doc == m.store[date]
        same_session_ssid ==
            _normalize_ssid(current_ssid) = _normalize_ssid(doc.ssid)
        configured_ssid_is_placeholder ==
            _normalize_ssid(OfficeWifiName) \in {<<>>, PlaceholderName}
        on_configured_office_ssid ==
            _normalize_ssid(current_ssid) = _normalize_ssid(OfficeWifiName)
    IN
    IF ~doc.exists \/ ~doc.is_active THEN [m EXCEPT !.ret = FALSE]
    ELSE IF ~same_session_ssid
            \/ (~configured_ssid_is_placeholder /\ ~on_configured_office_ssid)
    THEN [SessionManager_end_session(
              [m EXCEPT !.date = date, !.start = doc.current_session_start],
              doc.total_minutes, t)
          EXCEPT !.ret = FALSE]
    ELSE [m EXCEPT !.date = date,
                   !.start = doc.current_session_start,
                   !.state = IF doc.grace_period_start # NoTime
                             THEN "in_grace_period"
                             ELSE IF ~doc.has_network_access
                             THEN "paused_for_reauth"
                             ELSE IF doc.completed_4h THEN "completed"
                             ELSE "in_office_session",
                   !.orphans = IF doc.grace_period_start # NoTime
                                  /\ m.task # NoTime
                               THEN m.orphans \cup {m.task} ELSE m.orphans,
                   !.task = IF doc.grace_period_start # NoTime
                            THEN t + sleep_minutes * SecondsPerMinute
                            ELSE m.task,
                   !.ret = TRUE]

\* The dictionary get_current_status returns when it has no record.
NoStatus(state_value) ==
    [connected |-> FALSE, session_active |-> FALSE, total_minutes |-> 0,
     target_minutes |-> ManagerTargetMinutes, completed_4h |-> FALSE,
     state |-> state_value]

\* Variant: the query brings the in-memory state in line with the record.
get_current_status_sync(m, store_fails) ==
    IF m.date # NoDate /\ ~store_fails /\ m.store[m.date].exists
       /\ m.store[m.date].completed_4h
    THEN [m EXCEPT !.state = "completed", !.ret = NoStatus("completed")]
    ELSE [m EXCEPT !.ret = NoStatus(m.state)]

\* SessionManager.get_current_status; store_fails: the store call raises.
get_current_status(m, store_fails) ==
    IF m.date = NoDate THEN [m EXCEPT !.ret = NoStatus(m.state)]
    ELSE IF store_fails THEN [m EXCEPT !.ret = NoStatus("error")]
    ELSE
      LET doc == m.store[m.date]
      IN  IF ~doc.exists THEN [m EXCEPT !.ret = NoStatus(m.state)]
          ELSE [m EXCEPT !.ret =
                  [connected |-> doc.is_active,
                   session_active |-> doc.is_active,
                   total_minutes |-> doc.total_minutes,
                   target_minutes |-> doc.target_minutes,
                   completed_4h |-> doc.completed_4h,
                   has_network_access |-> doc.has_network_access,
                   in_grace_period |-> doc.grace_period_start # NoTime,
                   sessions_count |-> doc.sessions_count,
                   paused_duration_minutes |-> doc.paused_duration_minutes,
                   state |-> m.state,
                   date |-> m.date]]

\* wifi_polling_loop's self-heal: on the office network without an active
\* session it starts one.  m is the manager after the calls, calls the
\* manager operations called, in order.
SelfHeal(m, current_ssid, date, t) ==
    LET status == get_current_status(m, FALSE).ret
    IN  IF is_office_ssid(current_ssid) /\ ~status.session_active
        THEN [m |-> SessionManager_start_session(m, OfficeWifiName, date, t),
              calls |-> <<"start_session">>]
        ELSE [m |-> m, calls |-> <<>>]

\* wifi_detector.process_ssid_change(old_ssid, new_ssid)
process_ssid_change(m, old_ssid, new_ssid, date, t) ==
    IF is_office_ssid(new_ssid) /\ ~is_office_ssid(old_ssid)
    THEN [m |-> SessionManager_start_session(m, OfficeWifiName, date, t),
          calls |-> <<"start_session">>]
    ELSE IF is_office_ssid(old_ssid) /\ ~is_office_ssid(new_ssid)
    THEN [m |-> SessionManager_end_session(m, NoInt, t),
          calls |-> <<"end_session">>]
    ELSE [m |-> m, calls |-> <<>>]

\* wifi_detector.wifi_polling_loop, one iteration that finds current_ssid
\* with _previous_ssid = previous.
wifi_polling_loop(m, previous, current_ssid, date, t) ==
    LET healed == SelfHeal(m, current_ssid, date, t)
        routed == IF current_ssid # previous
                  THEN process_ssid_change(healed.m, previous, current_ssid,
                                           date, t)
                  ELSE [m |-> healed.m, calls |-> <<>>]
    IN  [m |-> routed.m, calls |-> healed.calls \o routed.calls]

\* main.lifespan, startup half: the manager is freshly constructed.
FreshManager(s) ==
    [store |-> s, state |-> "idle", date |-> NoDate, start |-> NoTime,
     task |-> NoTime, orphans |-> {}, ret |-> FALSE]

\* Variant: startup goes straight to recovery.
lifespan_no_cleanup(s, current_ssid, sleep_minutes, date, t) ==
    LET m0 == FreshManager(s)
        m1 == recover_session(m0, current_ssid, sleep_minutes, date, t)
    IN  IF m1.ret THEN m1
        ELSE IF is_office_ssid(current_ssid)
        THEN SessionManager_start_session(m1, OfficeWifiName, date, t)
        ELSE m1

lifespan(s, current_ssid, sleep_minutes, date, t) ==
    LET m0 == FreshManager(close_stale_sessions(s, date))
        m1 == recover_session(m0, current_ssid, sleep_minutes, date, t)
    IN  IF m1.ret THEN m1
        ELSE IF is_office_ssid(current_ssid)
        THEN SessionManager_start_session(m1, OfficeWifiName, date, t)
        ELSE m1

\* ----------------------------------------------------------------- state
VARIABLES
    now,                    \* UTC clock, seconds
    today,                  \* calendar date returned by get_today_date_ist
    cur_ssid,               \* SSID the machine is connected to
    up,                     \* the process is running
    grace_period_minutes,   \* settings.grace_period_minutes of this install
    store,                  \* daily_sessions collection, by date
    state,                  \* SessionManager.state
    current_date,           \* SessionManager._current_date
    current_session_start,  \* SessionManager._current_session_start
    grace_period_task,      \* wake-up time of SessionManager._grace_period_task
    orphan_tasks,           \* wake-up times of unreferenced sleeping monitors
    notified_date,          \* timer_polling_loop's notified_date
    credit,                 \* history: seconds day 1 was active and reachable
    previous_ssid,          \* wifi_detector._previous_ssid
    timer_doc,              \* record a timer iteration has read, not yet written
    monitor,                \* position of the monitor _grace_period_task refers to
    starting                \* position of a start_session call in progress

\* The positions of the background tasks and of calls in progress.
tasks == <<previous_ssid, timer_doc, monitor, starting>>

vars == <<now, today, cur_ssid, up, grace_period_minutes, store, state,
          current_date, current_session_start, grace_period_task,
          orphan_tasks, notified_date, credit, tasks>>

clock == <<now, today, cur_ssid, grace_period_minutes, credit>>

env == <<clock, tasks>>

\* _previous_ssid before wifi_polling_loop has captured its first SSID.
NotPolling == <<"not polling">>

\* The timer loop is asleep between two iterations.
NoRead == [date |-> NoDate, doc |-> NoDoc, computed |-> 0]

\* The monitor is in its sleep (or there is none).
Asleep == [pc |-> "sleep", final_minutes |-> NoInt]

\* No start_session call is in progress.
NoCall == [pc |-> "none", date |-> NoDate, start_time |-> NoTime]

Manager ==
    [store |-> store, state |-> state, date |-> current_date,
     start |-> current_session_start, task |-> grace_period_task,
     orphans |-> orphan_tasks, ret |-> FALSE]

Becomes(m) ==
    /\ Cardinality(m.orphans) <= MaxOrphans
    /\ store' = m.store
    /\ state' = m.state
    /\ current_date' = m.date
    /\ current_session_start' = m.start
    /\ grace_period_task' = m.task
    /\ orphan_tasks' = m.orphans

\* Before the process is first started: an empty collection.
InitWith(settings) ==
    /\ now = 0
    /\ today = 1
    /\ cur_ssid \in Ssids
    /\ up = FALSE
    /\ grace_period_minutes \in settings
    /\ store = [d \in Dates |-> NoDoc]
    /\ state = "idle"
    /\ current_date = NoDate
    /\ current_session_start = NoTime
    /\ grace_period_task = NoTime
    /\ orphan_tasks = {}
    /\ notified_date = NoDate
    /\ credit = 0
    /\ previous_ssid = NotPolling
    /\ timer_doc = NoRead
    /\ monitor = Asleep
    /\ starting = NoCall

Init == InitWith({DefaultGraceMinutes})

\* -------------------------------------------------------------- actions
\* Process start: main.lifespan up to the creation of the pollers.
Startup ==
    /\ ~up
    /\ up' = TRUE
    /\ Becomes(lifespan(store, cur_ssid, grace_period_minutes, today, now))
    /\ store'[today].sessions_count <= MaxSessions
    /\ UNCHANGED <<env, notified_date>>

\* Process exit (shutdown or crash): tasks and in-memory fields are gone.
Exit ==
    /\ up
    /\ up' = FALSE
    /\ Becomes(FreshManager(store))
    /\ notified_date' = NoDate
    /\ previous_ssid' = NotPolling
    /\ timer_doc' = NoRead
    /\ monitor' = Asleep
    /\ starting' = NoCall
    /\ UNCHANGED clock

StartSession ==
    /\ up
    /\ Becomes(SessionManager_start_session(Manager, OfficeWifiName, today, now))
    /\ store'[today].sessions_count <= MaxSessions
    /\ UNCHANGED <<env, up, notified_date>>

EndSession ==
    /\ up
    /\ Becomes(SessionManager_end_session(Manager, NoInt, now))
    /\ UNCHANGED <<env, up, notified_date>>

HandleDisconnect ==
    /\ up
    /\ Becomes(handle_disconnect(Manager, grace_period_minutes, now))
    /\ UNCHANGED <<env, up, notified_date>>

\* The monitor referred to by _grace_period_task wakes up.  Its clock
\* reading follows the sleep and a store round trip, so it is later than
\* the end of the sleep.
MonitorFires ==
    /\ up
    /\ grace_period_task # NoTime
    /\ now > grace_period_task
    /\ Becomes(_monitor_grace_period([Manager EXCEPT !.task = NoTime], now))
    /\ UNCHANGED <<env, up, notified_date>>

OrphanFires ==
    /\ up
    /\ \E w \in orphan_tasks :
        /\ now > w
        /\ Becomes(_monitor_grace_period(
                      [Manager EXCEPT !.orphans = @ \ {w}], now))
    /\ UNCHANGED <<env, up, notified_date>>

\* main.connectivity_polling_loop, one iteration.
ConnectivityPoll ==
    /\ up
    /\ is_office_ssid(cur_ssid)
    /\ \E has_internet \in BOOLEAN :
        Becomes(check_network_connectivity(Manager, has_internet, now))
    /\ UNCHANGED <<env, up, notified_date>>

\* Variant: the iteration does its accounting on a paused record too.
TimerActs_paused(d, doc, computed) ==
    LET stored == Max(0, doc.total_minutes)
        updated == store[d].exists /\ store[d].is_active
        s1 == IF computed # stored
              THEN update_elapsed_time(store, d, computed) ELSE store
        total_minutes == IF computed # stored /\ ~updated
                         THEN stored ELSE computed
        reached == total_minutes >= _resolve_target_minutes
                   /\ ~doc.completed_4h
        s2 == IF reached THEN mark_completed(s1, d) ELSE s1
        completed == doc.completed_4h \/ reached
    IN  /\ store' = s2
        /\ notified_date' = IF completed /\ d # notified_date
                            THEN d ELSE notified_date

\* timer_engine.timer_polling_loop from the check of has_network_access
\* on: doc is the record of date d the iteration has read and computed
\* the running total it has derived from doc; the writes meet the store
\* as it is now.
TimerActs(d, doc, computed) ==
    LET stored == Max(0, doc.total_minutes)
        updated == store[d].exists /\ store[d].is_active
        s1 == IF computed # stored
              THEN update_elapsed_time(store, d, computed) ELSE store
        total_minutes == IF computed # stored /\ ~updated
                         THEN stored ELSE computed
        reached == total_minutes >= _resolve_target_minutes
                   /\ ~doc.completed_4h
        s2 == IF reached THEN mark_completed(s1, d) ELSE s1
        completed == doc.completed_4h \/ reached
    IN  IF ~doc.has_network_access
        THEN UNCHANGED <<store, notified_date>>
        ELSE /\ store' = s2
             /\ notified_date' = IF completed /\ d # notified_date
                                 THEN d ELSE notified_date

\* timer_engine.timer_polling_loop, one iteration on the record of date d
\* without another task running between its read and its writes.
TimerBody(d) ==
    TimerActs(d, store[d], _compute_running_total_minutes(store[d], now))

TimerTick ==
    /\ up
    /\ IF ~is_office_ssid(cur_ssid)
       THEN notified_date' = NoDate /\ UNCHANGED store
       ELSE IF \A d \in Dates : ~(store[d].exists /\ store[d].is_active)
       THEN notified_date' = NoDate /\ UNCHANGED store
       ELSE \E d \in Dates :
               store[d].exists /\ store[d].is_active /\ TimerBody(d)
    /\ UNCHANGED <<env, up, state, current_date, current_session_start,
                   grace_period_task, orphan_tasks>>

\* timer_polling_loop, first half of an iteration: the SSID gate, the read
\* of the active record and the running total computed from it.  An
\* iteration that has nothing to await ends here.
TimerReads ==
    /\ up
    /\ timer_doc = NoRead
    /\ IF ~is_office_ssid(cur_ssid)
       THEN notified_date' = NoDate /\ UNCHANGED timer_doc
       ELSE IF \A d \in Dates : ~(store[d].exists /\ store[d].is_active)
       THEN notified_date' = NoDate /\ UNCHANGED timer_doc
       ELSE \E d \in Dates :
               /\ store[d].exists /\ store[d].is_active
               /\ timer_doc' =
                     IF ~store[d].has_network_access THEN NoRead
                     ELSE [date |-> d, doc |-> store[d],
                           computed |->
                               _compute_running_total_minutes(store[d], now)]
               /\ UNCHANGED notified_date
    /\ UNCHANGED <<clock, up, store, state, current_date,
                   current_session_start, grace_period_task, orphan_tasks,
                   previous_ssid, monitor, starting>>

\* timer_polling_loop, second half of the iteration: its writes, after
\* other tasks may have run.
TimerWrites ==
    /\ up
    /\ timer_doc # NoRead
    /\ TimerActs(timer_doc.date, timer_doc.doc, timer_doc.computed)
    /\ timer_doc' = NoRead
    /\ UNCHANGED <<clock, up, state, current_date, current_session_start,
                   grace_period_task, orphan_tasks, previous_ssid, monitor,
                   starting>>

\* A status request (main's status route, the Wi-Fi loop's check).
GetCurrentStatus ==
    /\ up
    /\ \E store_fails \in BOOLEAN :
        Becomes(get_current_status(Manager, store_fails))
    /\ UNCHANGED <<env, up, notified_date>>

\* wifi_polling_loop starts: the initial SSID capture.
WifiPollerStarts ==
    /\ up
    /\ previous_ssid = NotPolling
    /\ previous_ssid' = cur_ssid
    /\ UNCHANGED <<clock, up, store, state, current_date,
                   current_session_start, grace_period_task, orphan_tasks,
                   notified_date, timer_doc, monitor, starting>>

\* wifi_polling_loop, one iteration.
WifiPoll ==
    /\ up
    /\ previous_ssid # NotPolling
    /\ Becomes(wifi_polling_loop(Manager, previous_ssid, cur_ssid,
                                 today, now).m)
    /\ store'[today].sessions_count <= MaxPairs
    /\ previous_ssid' = cur_ssid
    /\ UNCHANGED <<clock, up, notified_date, timer_doc, monitor, starting>>

\* The machine joins another network or loses the network.
NetworkChange ==
    /\ \E s \in (Ssids \cup {NoSsid}) \ {cur_ssid} : cur_ssid' = s
    /\ UNCHANGED <<now, today, up, grace_period_minutes, store, state,
                   current_date, current_session_start, grace_period_task,
                   orphan_tasks, notified_date, credit, tasks>>

\* SessionManager.start_session in the steps its awaits divide it into.
\* First step: the date and start time are taken, the rollover guard runs
\* and today's record is created if it is missing.
StartBegins ==
    /\ up
    /\ starting = NoCall
    /\ LET m1 == ForceCloseStale(Manager, today, now)
       IN  /\ Becomes([m1 EXCEPT !.store =
                          get_or_create_daily_session(
                              m1.store, today, OfficeWifiName,
                              ManagerTargetMinutes)])
           /\ monitor' = IF m1.task = NoTime THEN Asleep ELSE monitor
    /\ starting' = [pc |-> "created", date |-> today, start_time |-> now]
    /\ UNCHANGED <<clock, up, notified_date, previous_ssid, timer_doc>>

\* Second step: store.start_session.
StartStores ==
    /\ up
    /\ starting.pc = "created"
    /\ store' = MongoDBStore_start_session(store, starting.date,
                                           OfficeWifiName, starting.start_time)
    /\ store'[starting.date].sessions_count <= MaxPairs
    /\ starting' = [starting EXCEPT !.pc = "started"]
    /\ UNCHANGED <<clock, up, state, current_date, current_session_start,
                   grace_period_task, orphan_tasks, notified_date,
                   previous_ssid, timer_doc, monitor>>

\* Third step: the monitor _grace_period_task refers to is cancelled
\* wherever it stands, if it is not done.
StartCancels ==
    /\ up
    /\ starting.pc = "started"
    /\ grace_period_task' = NoTime
    /\ monitor' = Asleep
    /\ starting' = [starting EXCEPT !.pc = "cancelled"]
    /\ UNCHANGED <<clock, up, store, state, current_date,
                   current_session_start, orphan_tasks, notified_date,
                   previous_ssid, timer_doc>>

\* Fourth step: store.cancel_grace_period.
StartClears ==
    /\ up
    /\ starting.pc = "cancelled"
    /\ store' = cancel_grace_period(store, starting.date)
    /\ starting' = [starting EXCEPT !.pc = "cleared"]
    /\ UNCHANGED <<clock, up, state, current_date, current_session_start,
                   grace_period_task, orphan_tasks, notified_date,
                   previous_ssid, timer_doc, monitor>>

\* Last step: the in-memory fields are set and the call returns True.
StartReturns ==
    /\ up
    /\ starting.pc = "cleared"
    /\ state' = "in_office_session"
    /\ current_session_start' = starting.start_time
    /\ current_date' = starting.date
    /\ starting' = NoCall
    /\ UNCHANGED <<clock, up, store, grace_period_task, orphan_tasks,
                   notified_date, previous_ssid, timer_doc, monitor>>

\* SessionManager._monitor_grace_period in the steps its awaits divide it
\* into.  First step: the sleep returns and the store is asked whether
\* the grace period is still active and expired.
MonitorWakes ==
    /\ up
    /\ grace_period_task # NoTime
    /\ monitor.pc = "sleep"
    /\ now > grace_period_task
    /\ LET status == check_grace_period_status(store, current_date, now)
           ends == current_date # NoDate /\ status.active /\ status.expired
       IN  /\ monitor' = IF ends THEN [monitor EXCEPT !.pc = "checked"]
                         ELSE Asleep
           /\ grace_period_task' = IF ends THEN grace_period_task ELSE NoTime
    /\ UNCHANGED <<clock, up, store, state, current_date,
                   current_session_start, orphan_tasks, notified_date,
                   previous_ssid, timer_doc, starting>>

\* Second step: _calculate_current_total.
MonitorTotals ==
    /\ up
    /\ monitor.pc = "checked"
    /\ monitor' = [pc |-> "totalled",
                   final_minutes |-> _calculate_current_total(Manager, now)]
    /\ UNCHANGED <<clock, up, store, state, current_date,
                   current_session_start, grace_period_task, orphan_tasks,
                   notified_date, previous_ssid, timer_doc, starting>>

\* Third step: end_session(final_minutes) up to its store write.
MonitorEnds ==
    /\ up
    /\ monitor.pc = "totalled"
    /\ IF current_date = NoDate
       THEN /\ monitor' = Asleep
            /\ grace_period_task' = NoTime
            /\ UNCHANGED store
       ELSE /\ store' = MongoDBStore_end_session(store, current_date,
                                                 monitor.final_minutes)
            /\ monitor' = [monitor EXCEPT !.pc = "written"]
            /\ UNCHANGED grace_period_task
    /\ UNCHANGED <<clock, up, state, current_date, current_session_start,
                   orphan_tasks, notified_date, previous_ssid, timer_doc,
                   starting>>

\* Last step: end_session resets the in-memory fields and the monitor is
\* done.
MonitorReturns ==
    /\ up
    /\ monitor.pc = "written"
    /\ state' = "idle"
    /\ current_session_start' = NoTime
    /\ current_date' = NoDate
    /\ grace_period_task' = NoTime
    /\ monitor' = Asleep
    /\ UNCHANGED <<clock, up, store, orphan_tasks, notified_date,
                   previous_ssid, timer_doc, starting>>

\* handle_disconnect while no monitor is pending and no start_session is
\* in progress.
FirstDisconnect ==
    /\ grace_period_task = NoTime
    /\ starting = NoCall
    /\ HandleDisconnect

\* A sleeping monitor wakes before the clock moves past the next grid
\* point after its wake-up time.
NoOverdueMonitor ==
    \/ ~up
    \/ /\ grace_period_task = NoTime \/ now <= grace_period_task
       /\ \A w \in orphan_tasks : now <= w

AdvanceTime ==
    /\ now + Step <= MaxTime
    /\ NoOverdueMonitor
    /\ now' = now + Step
    /\ UNCHANGED <<today, cur_ssid, up, grace_period_minutes, store, state,
                   current_date, current_session_start, grace_period_task,
                   orphan_tasks, notified_date, credit, tasks>>

Midnight ==
    /\ today + 1 \in Dates
    /\ today' = today + 1
    /\ UNCHANGED <<now, cur_ssid, up, grace_period_minutes, store, state,
                   current_date, current_session_start, grace_period_task,
                   orphan_tasks, notified_date, credit, tasks>>

SsidChange ==
    /\ \E s \in Ssids \ {cur_ssid} : cur_ssid' = s
    /\ UNCHANGED <<now, today, up, grace_period_minutes, store, state,
                   current_date, current_session_start, grace_period_task,
                   orphan_tasks, notified_date, credit, tasks>>

Next ==
    \/ Startup
    \/ Exit
    \/ StartSession
    \/ EndSession
    \/ HandleDisconnect
    \/ MonitorFires
    \/ OrphanFires
    \/ ConnectivityPoll
    \/ TimerTick
    \/ GetCurrentStatus
    \/ AdvanceTime
    \/ Midnight
    \/ SsidChange

Spec == Init /\ [][Next]_vars

\* The clock advances and the history variable records the seconds during
\* which day 1's record was active with has_network_access = true.
AdvanceTimeCredited ==
    /\ now + Step <= MaxTime
    /\ NoOverdueMonitor
    /\ now' = now + Step
    /\ credit' = IF store[1].exists /\ store[1].is_active
                    /\ store[1].has_network_access
                 THEN credit + Step ELSE credit
    /\ UNCHANGED <<today, cur_ssid, up, grace_period_minutes, store, state,
                   current_date, current_session_start, grace_period_task,
                   orphan_tasks, notified_date, tasks>>

\* start_session called while the manager has no session.
StartSessionWhenIdle ==
    /\ up
    /\ current_date = NoDate
    /\ Becomes(SessionManager_start_session(Manager, OfficeWifiName, today, now))
    /\ store'[today].sessions_count <= MaxPairs
    /\ UNCHANGED <<env, up, notified_date>>

\* One day of start_session / end_session pairs, no pauses.
NextPairs ==
    \/ Startup
    \/ StartSessionWhenIdle
    \/ EndSession
    \/ TimerTick
    \/ AdvanceTimeCredited

SpecPairs == Init /\ [][NextPairs]_vars

\* One day of sessions with reachability outages.
NextPause ==
    \/ Startup
    \/ StartSession
    \/ EndSession
    \/ ConnectivityPoll
    \/ TimerTick
    \/ AdvanceTimeCredited

SpecPause == Init /\ [][NextPause]_vars

\* One day of sessions and disconnects on installs whose configured
\* grace period is any of GraceSettings.
NextGrace ==
    \/ Startup
    \/ Exit
    \/ StartSession
    \/ EndSession
    \/ HandleDisconnect
    \/ MonitorFires
    \/ OrphanFires
    \/ TimerTick
    \/ AdvanceTime
    \/ SsidChange

SpecGrace == InitWith(GraceSettings) /\ [][NextGrace]_vars

\* One calendar day of the whole program: every handler, restarts
\* included, without the change of date.
NextDay ==
    \/ Startup
    \/ Exit
    \/ StartSession
    \/ EndSession
    \/ HandleDisconnect
    \/ MonitorFires
    \/ OrphanFires
    \/ ConnectivityPoll
    \/ TimerTick
    \/ GetCurrentStatus
    \/ AdvanceTime
    \/ SsidChange

SpecDay == Init /\ [][NextDay]_vars

\* The clock advances and the history variable records the seconds of
\* day 1 (the calendar date being day 1) during which day 1's record was
\* active.
AdvanceTimeDated ==
    /\ now + Step <= MaxTime
    /\ NoOverdueMonitor
    /\ now' = now + Step
    /\ credit' = IF today = 1 /\ store[1].exists /\ store[1].is_active
                 THEN credit + Step ELSE credit
    /\ UNCHANGED <<today, cur_ssid, up, grace_period_minutes, store, state,
                   current_date, current_session_start, grace_period_task,
                   orphan_tasks, notified_date, tasks>>

\* The program as it is deployed, without reachability outages: sessions
\* are started and ended by the Wi-Fi poller only, across the change of
\* date.
NextWifi ==
    \/ Startup
    \/ WifiPollerStarts
    \/ WifiPoll
    \/ TimerTick
    \/ AdvanceTimeDated
    \/ Midnight
    \/ NetworkChange

SpecWifi == Init /\ [][NextWifi]_vars

\* One day of sessions with the timer iteration in two steps, so that
\* start_session and end_session run between its read and its writes.
NextTick ==
    \/ Startup
    \/ StartSession
    \/ EndSession
    \/ TimerReads
    \/ TimerWrites
    \/ AdvanceTime

SpecTick == Init /\ [][NextTick]_vars

\* The clock reaches its next grid point while no start_session call is
\* in progress: a call is over long before.
AdvanceTimeBetweenCalls ==
    /\ starting = NoCall
    /\ AdvanceTime

\* One day with one grace monitor at a time, start_session and the
\* monitor taking their steps in any order.
NextRace ==
    \/ Startup
    \/ FirstDisconnect
    \/ StartBegins
    \/ StartStores
    \/ StartCancels
    \/ StartClears
    \/ StartReturns
    \/ MonitorWakes
    \/ MonitorTotals
    \/ MonitorEnds
    \/ MonitorReturns
    \/ AdvanceTimeBetweenCalls

SpecRace == Init /\ [][NextRace]_vars

\* An active record as start_session and the connectivity poll leave it:
\* the stored total equals the baseline, which is any number of minutes up
\* to MaxBaseline; the session has begun at the first or the second grid
\* point; the record is reachable or has been paused since the session
\* began.
SessionRecords ==
    {[exists |-> TRUE, ssid |-> OfficeWifiName, is_active |-> TRUE,
      total_minutes |-> base, completed_4h |-> FALSE,
      target_minutes |-> ManagerTargetMinutes, sessions_count |-> 1,
      paused_duration_minutes |-> paused,
      session_start_total_minutes |-> base,
      session_start_paused_minutes |-> paused,
      grace_period_minutes |-> RecordGraceMinutes,
      grace_period_start |-> NoTime,
      has_network_access |-> reachable,
      paused_at |-> IF reachable THEN NoTime ELSE start,
      current_session_start |-> start] :
        base \in 0..MaxBaseline, paused \in 0..1, reachable \in BOOLEAN,
        start \in {0, Step}}

\* The running process with one such record for day 1.
InitFormula ==
    /\ now \in {0, Step}
    /\ today = 1
    /\ cur_ssid \in Ssids
    /\ up = TRUE
    /\ grace_period_minutes = DefaultGraceMinutes
    /\ \E doc \in SessionRecords :
          /\ doc.current_session_start <= now
          /\ store = [d \in Dates |-> IF d = 1 THEN doc ELSE NoDoc]
          /\ current_session_start = doc.current_session_start
          /\ state = IF doc.has_network_access THEN "in_office_session"
                     ELSE "paused_for_reauth"
    /\ current_date = 1
    /\ grace_period_task = NoTime
    /\ orphan_tasks = {}
    /\ notified_date = NoDate
    /\ credit = 0
    /\ previous_ssid = NotPolling
    /\ timer_doc = NoRead
    /\ monitor = Asleep
    /\ starting = NoCall

\* The elapsed formula applied over and over: timer ticks persist the
\* running total while the clock advances and the network comes and goes.
NextFormula ==
    \/ TimerTick
    \/ ConnectivityPoll
    \/ AdvanceTime
    \/ SsidChange

SpecFormula == InitFormula /\ [][NextFormula]_vars

\* start_session during which one store call raises.
StartSessionStoreFails ==
    /\ up
    /\ \E failed \in StartSessionStoreCalls :
          Becomes(start_session_store_fails(Manager, OfficeWifiName, today,
                                            now, failed))
    /\ store'[today].sessions_count <= MaxSessions
    /\ UNCHANGED <<env, up, notified_date>>

\* end_session during which one store call raises.
EndSessionStoreFails ==
    /\ up
    /\ \E failed \in EndSessionStoreCalls :
          Becomes(end_session_store_fails(Manager, NoInt, now, failed))
    /\ UNCHANGED <<env, up, notified_date>>

\* Sessions across the change of date on a store that fails now and then.
NextFail ==
    \/ Startup
    \/ StartSession
    \/ EndSession
    \/ StartSessionStoreFails
    \/ EndSessionStoreFails
    \/ HandleDisconnect
    \/ MonitorFires
    \/ OrphanFires
    \/ TimerTick
    \/ AdvanceTime
    \/ Midnight

SpecFail == Init /\ [][NextFail]_vars

TypeOK ==
    /\ now \in 0..MaxTime
    /\ today \in Dates
    /\ up \in BOOLEAN
    /\ current_date \in Dates \cup {NoDate}
    /\ \A d \in Dates :
          store[d].sessions_count \in 0..Max(MaxSessions, MaxPairs)

\* ------------------------------------------------------------ properties
\* A step of StartSession; the in-memory fields it always sets come first.
StartSessionStep ==
    /\ up /\ now' = now
    /\ current_date' = today /\ current_session_start' = now
    /\ state' = "in_office_session"
    /\ StartSession

\* A step of TimerTick; the fields it never touches come first.
TimerTickStep ==
    /\ up /\ now' = now /\ cur_ssid' = cur_ssid
    /\ state' = state /\ current_date' = current_date
    /\ grace_period_task' = grace_period_task
    /\ TimerTick

ActiveDates == {d \in Dates : store[d].exists /\ store[d].is_active}

\* C2: at any time at most one daily record has is_active = true, across
\* date rollovers of a running process and across restarts.
AtMostOneActive == Cardinality(ActiveDates) <= 1

\* Day 1 was closed after midnight and day 2's record is the active one.
RolledOverToDay2 ==
    /\ store[1].exists /\ ~store[1].is_active /\ store[1].sessions_count > 0
    /\ store[2].exists /\ store[2].is_active

CompletedLatches ==
    [][\A d \in Dates :
          (store[d].exists /\ store[d].completed_4h)
              => store'[d].completed_4h]_vars

\* A completed record that has been ended and started again.
CompletedAndRestarted ==
    \E d \in Dates :
        /\ store[d].exists /\ store[d].completed_4h
        /\ store[d].is_active /\ store[d].sessions_count >= 2

\* C1: within one calendar day the stored total_minutes of the day's
\* record never decreases from one state to the next.
TotalNeverDecreases ==
    [][(today' = today /\ store[today].exists)
          => store'[today].total_minutes >= store[today].total_minutes]_vars

\* C7: while a grace period is pending the record's is_active is false.
GraceMeansInactive ==
    \A d \in Dates :
        (store[d].exists /\ store[d].grace_period_start # NoTime)
            => ~store[d].is_active

\* Instants of the clock grid from the present on.
LaterInstants == {t \in now..(MaxTime + 2 * SecondsPerMinute) : t % Step = 0}

\* C5: a reconnecting start_session strictly inside the grace window
\* leaves the running total of every later instant as it would have been
\* without the disconnect.
ReconnectLosesNothing ==
    [][\A d \in Dates :
          (/\ store[d].exists /\ store[d].is_active
           /\ store[d].has_network_access
           /\ store[d].grace_period_start # NoTime
           /\ now - store[d].grace_period_start
                 < grace_period_minutes * SecondsPerMinute
           /\ store'[d].sessions_count = store[d].sessions_count + 1)
          => \A t \in LaterInstants :
                _compute_running_total_minutes(store'[d], t)
                    = _compute_running_total_minutes(store[d], t)]_vars

\* C6: when the monitor of a pending grace period wakes up and no
\* start_session intervened, it ends the session with the elapsed-formula
\* total of that instant.
MonitorEndsSession ==
    [][(/\ up /\ up'
        /\ grace_period_task # NoTime /\ now > grace_period_task
        /\ grace_period_task' = NoTime
        /\ current_date # NoDate /\ current_date' \in {current_date, NoDate}
        /\ store[current_date].exists /\ store[current_date].is_active
        /\ store[current_date].grace_period_start # NoTime
        /\ store'[current_date].sessions_count
              = store[current_date].sessions_count)
       => /\ ~store'[current_date].is_active
          /\ store'[current_date].total_minutes
                = _compute_running_total_minutes(store[current_date], now)]_vars

\* C8: after start_session / end_session pairs without pauses the day's
\* total_minutes is within one minute of the summed session durations.
AdditiveWithinOneMinute ==
    (store[1].exists /\ ~store[1].is_active)
        => /\ store[1].total_minutes * SecondsPerMinute - credit
                 <= SecondsPerMinute
           /\ credit - store[1].total_minutes * SecondsPerMinute
                 <= SecondsPerMinute

\* C9: time with has_network_access = false is never credited: the running
\* total stands still while an outage lasts, and the stored total stays
\* less than one minute above the time the record was active and reachable.
OutageNeverCredited ==
    [][/\ store'[1].exists
            => store'[1].total_minutes * SecondsPerMinute
                  < credit' + SecondsPerMinute
       /\ (/\ store[1].exists /\ store[1].is_active
           /\ ~store[1].has_network_access
           /\ store' = store)
            => _compute_running_total_minutes(store[1], now')
                   = _compute_running_total_minutes(store[1], now)]_vars

\* C10: paused_duration_minutes changes only on a false-to-true
\* reachability edge, and then by the whole minutes of the outage.
PausedDurationExact ==
    [][\A d \in Dates :
          store[d].exists =>
            IF /\ store[d].is_active /\ store'[d].is_active
               /\ ~store[d].has_network_access /\ store'[d].has_network_access
               /\ store[d].paused_at # NoTime
               /\ store'[d].sessions_count = store[d].sessions_count
            THEN store'[d].paused_duration_minutes
                    = store[d].paused_duration_minutes
                        + ((now - store[d].paused_at) \div SecondsPerMinute)
            ELSE store'[d].paused_duration_minutes
                    = store[d].paused_duration_minutes]_vars

\* The timer loop's tick evaluates record d: the machine is on the office
\* network and d is the active, reachable record.
TickEvaluates(d) ==
    /\ up /\ is_office_ssid(cur_ssid)
    /\ store[d].exists /\ store[d].is_active
    /\ store[d].has_network_access

OneNotificationPerDate ==
    [][(notified_date' # notified_date /\ notified_date' # NoDate)
          => ~store[notified_date'].completed_4h]_vars

\* One run of the process on one day: sessions, outages, network changes
\* and timer ticks, without a restart.
NextRun ==
    \/ Startup
    \/ StartSession
    \/ EndSession
    \/ ConnectivityPoll
    \/ TimerTick
    \/ AdvanceTime
    \/ SsidChange

SpecRun == Init /\ [][NextRun]_vars

\* C13: start_session with an in-memory date other than today first ends
\* that date's record with its stored total, then creates and starts
\* today's record and adopts today as the in-memory date; with the
\* in-memory date already today it ends no record.
RolloverGuard ==
    [][StartSessionStep =>
          /\ (current_date # NoDate /\ current_date # today)
                => /\ ~store'[current_date].is_active
                   /\ store'[current_date].total_minutes
                         = store[current_date].total_minutes
          /\ current_date = today
                => \A d \in Dates :
                      (store[d].exists /\ store[d].is_active)
                          => store'[d].is_active
          /\ store'[today].exists /\ store'[today].is_active
          /\ store'[today].current_session_start = now
          /\ store'[today].sessions_count = store[today].sessions_count + 1
          /\ current_date' = today]_vars

\* start_session has just closed day 1, which had minutes on it, and
\* started day 2.
RolloverKeptTotal ==
    /\ up /\ current_date = 2
    /\ store[1].exists /\ ~store[1].is_active /\ store[1].total_minutes > 0
    /\ store[2].exists /\ store[2].is_active
    /\ store[2].current_session_start = now
    /\ store[2].sessions_count = 1

SameMemory(m) ==
    /\ m.state = state
    /\ m.date = current_date
    /\ m.start = current_session_start
    /\ m.task = grace_period_task
    /\ m.orphans = orphan_tasks

\* Values passed as end_session's final_minutes.
FinalMinutesArgs == {NoInt, 0, 7}

\* C16: end_session without an active date returns False and changes
\* neither a stored record nor the manager's in-memory state.
EndWithoutSessionIsNoOp ==
    current_date = NoDate =>
        \A f \in FinalMinutesArgs :
            LET m == SessionManager_end_session(Manager, f, now)
            IN  ~m.ret /\ m.store = store /\ SameMemory(m)

\* The running manager has no active date while the day's record holds
\* the minutes of an ended session.
IdleAfterSession ==
    /\ up /\ current_date = NoDate
    /\ store[today].exists /\ ~store[today].is_active
    /\ store[today].total_minutes > 0

\* SSIDs handed to recover_session, and those among them that spell the
\* office network up to surrounding blanks, case and punctuation.
RawSsids ==
    {NoSsid, <<"x">>, <<"o", "f">>,
     <<" ", "o", "F", "-", "1">>, <<"O", "f", "1", " ">>}

OfficeSpellings == {<<" ", "o", "F", "-", "1">>, <<"O", "f", "1", " ">>}

\* C17: recover_session on an active record of today whose ssid the
\* current SSID (None included) does not match after normalisation ends
\* that session, leaves the manager idle without a date and returns False;
\* with today's record absent or inactive it returns False and changes
\* nothing.
RecoverMismatchForceEnds ==
    \A c \in RawSsids :
        LET m == recover_session(Manager, c, grace_period_minutes, today, now)
            doc == store[today]
        IN  IF ~doc.exists \/ ~doc.is_active
            THEN ~m.ret /\ m.store = store /\ SameMemory(m)
            ELSE (doc.ssid = OfficeWifiName /\ c \notin OfficeSpellings)
                    => /\ ~m.ret
                       /\ ~m.store[today].is_active
                       /\ m.store[today].total_minutes = doc.total_minutes
                       /\ m.state = "idle" /\ m.date = NoDate
                       /\ \A d \in Dates \ {today} : m.store[d] = store[d]

\* The process is down on a foreign network while today's record is
\* still active with minutes on it.
StaleSessionOnForeignNetwork ==
    /\ ~up /\ ~is_office_ssid(cur_ssid)
    /\ store[today].exists /\ store[today].is_active
    /\ store[today].ssid = OfficeWifiName
    /\ store[today].total_minutes > 0

\* C18: a second recover_session with the same current SSID at the same
\* instant leaves every daily record as the first call left it, whether
\* the first call resumed the session or force-ended it.
RecoverTwiceSameRecord ==
    \A c \in RawSsids :
        LET m1 == recover_session(Manager, c, grace_period_minutes, today, now)
            m2 == recover_session(m1, c, grace_period_minutes, today, now)
        IN  m2.store = m1.store

\* The process is down on the office network while today's record is
\* active with a grace period pending.
GraceSessionAwaitsRecovery ==
    /\ ~up /\ is_office_ssid(cur_ssid)
    /\ store[today].exists /\ store[today].is_active
    /\ store[today].grace_period_start # NoTime

\* C19: startup closes the active records of other dates, then recovers,
\* then starts a session exactly when nothing was resumed and the machine
\* is on the office network: afterwards no record of another date is
\* active and, on the office network, today's record is active.
StartupOrder ==
    [][Startup =>
          LET office == is_office_ssid(cur_ssid)
              active_today == store[today].exists /\ store[today].is_active
              resumed == active_today /\ office
          IN  /\ \A d \in Dates \ {today} :
                    ~(store'[d].exists /\ store'[d].is_active)
              /\ office => /\ store'[today].exists /\ store'[today].is_active
                           /\ current_date' = today
              /\ (active_today /\ ~office)
                    => ~store'[today].is_active /\ current_date' = NoDate
              /\ store'[today].sessions_count
                    = store[today].sessions_count
                        + (IF office /\ ~resumed THEN 1 ELSE 0)
              /\ resumed => store'[today] = store[today]]_vars

\* Startup on day 2 has closed day 1's record, left behind in its grace
\* period, and started day 2.
StartupClosedYesterday ==
    /\ up /\ today = 2 /\ current_date = 2
    /\ store[1].exists /\ ~store[1].is_active
    /\ store[1].grace_period_start # NoTime
    /\ store[2].exists /\ store[2].is_active

\* C20: get_current_status changes no stored record and none of the
\* manager's in-memory fields, with or without an active date or record
\* and when the store call fails.
StatusQueryReadsOnly ==
    \A store_fails \in BOOLEAN :
        LET m == get_current_status(Manager, store_fails)
        IN  m.store = store /\ SameMemory(m)

\* A running manager whose record is completed and in its grace period
\* while the in-memory state lags behind.
StatusOfCompletedInGrace ==
    /\ up /\ current_date # NoDate
    /\ store[current_date].exists /\ store[current_date].completed_4h
    /\ grace_period_task # NoTime /\ state # "completed"

\* The Wi-Fi poller, were it to run in this state, would call no manager
\* operation.
PollerHasNothingToDo ==
    /\ up /\ previous_ssid # NotPolling
    /\ wifi_polling_loop(Manager, previous_ssid, cur_ssid, today, now).calls
          = <<>>

\* C21: once the calendar date has moved past day 1, no step credits to
\* day 1's record more minutes than the record was active on day 1, also
\* while the process keeps running across midnight on the office network
\* and the Wi-Fi poller sees nothing to do; a total_minutes that changes
\* after the date has passed is at most catching up with day 1.
NoCreditAfterDate ==
    [][(/\ today = 2 /\ today' = today
        /\ store[1].exists
        /\ PollerHasNothingToDo)
          => \/ store'[1].total_minutes = store[1].total_minutes
             \/ store'[1].total_minutes * SecondsPerMinute <= credit']_vars

\* C22: when the Wi-Fi poller finds the office network gone while a
\* session is active, the session stays active and its grace period
\* starts at that instant.
DisconnectStartsGrace ==
    [][(/\ up /\ previous_ssid # NotPolling
        /\ is_office_ssid(previous_ssid) /\ ~is_office_ssid(cur_ssid)
        /\ current_date # NoDate
        /\ store[current_date].exists /\ store[current_date].is_active
        /\ previous_ssid' = cur_ssid
        /\ WifiPoll)
          => /\ store'[current_date].is_active
             /\ store'[current_date].grace_period_start = now]_vars

\* C28: one iteration of the Wi-Fi poller calls start_session exactly once
\* and nothing else on a change from a non-office to the office network,
\* end_session exactly once and nothing else on a change from the office
\* network to another or to none, and nothing between two non-office
\* networks.
PollerRoutesTransitions ==
    (up /\ previous_ssid # NotPolling) =>
        \A c \in Ssids \cup {NoSsid} :
            LET calls == wifi_polling_loop(Manager, previous_ssid, c,
                                           today, now).calls
                was_office == is_office_ssid(previous_ssid)
                on_office == is_office_ssid(c)
            IN  /\ (~was_office /\ on_office) => calls = <<"start_session">>
                /\ (was_office /\ ~on_office) => calls = <<"end_session">>
                /\ (~was_office /\ ~on_office) => calls = <<>>

\* C29: a timer tick changes no record (total_minutes and completed_4h
\* included) when the current SSID is not the office SSID, when no record
\* is active, or when the active record is paused.
TickSkipsWithoutWriting ==
    [][(/\ \/ ~is_office_ssid(cur_ssid)
           \/ \A d \in Dates :
                 (store[d].exists /\ store[d].is_active)
                     => ~store[d].has_network_access
        /\ TimerTickStep)
          => store' = store]_vars

\* A paused record on the office network whose running total is ahead of
\* the stored one and has reached the target: a tick would have both to
\* write.
PausedWithUncreditedTarget ==
    /\ up /\ is_office_ssid(cur_ssid)
    /\ \E d \in Dates :
          /\ store[d].exists /\ store[d].is_active
          /\ ~store[d].has_network_access /\ ~store[d].completed_4h
          /\ _compute_running_total_minutes(store[d], now)
                > store[d].total_minutes
          /\ _compute_running_total_minutes(store[d], now)
                >= _resolve_target_minutes

\* C23: when the record a timer iteration has read was ended before the
\* iteration writes, the writes leave the record inactive and its
\* total_minutes as end_session stored it.
EndedRecordKeptByTimer ==
    [][(/\ up /\ timer_doc # NoRead /\ timer_doc' = NoRead
        /\ ~store[timer_doc.date].is_active
        /\ TimerWrites)
          => /\ ~store'[timer_doc.date].is_active
             /\ store'[timer_doc.date].total_minutes
                   = store[timer_doc.date].total_minutes]_vars

\* A timer iteration is about to write a total that differs from the one
\* end_session has stored since the iteration read the record.
StaleTickAfterEnd ==
    /\ up /\ timer_doc # NoRead
    /\ ~store[timer_doc.date].is_active
    /\ timer_doc.computed # Max(0, timer_doc.doc.total_minutes)
    /\ timer_doc.computed # store[timer_doc.date].total_minutes

\* C24: when a start_session for the date of the session in memory
\* returns, the monitor of the earlier handle_disconnect is gone, the
\* record is active with the start time of that call, and the in-memory
\* state says so too, whatever steps the monitor took in between.
ReconnectBeatsMonitor ==
    [][(/\ up /\ starting.pc = "cleared" /\ starting' = NoCall
        /\ current_date = starting.date
        /\ StartReturns)
          => /\ grace_period_task' = NoTime
             /\ store'[starting.date].is_active
             /\ store'[starting.date].current_session_start
                   = starting.start_time
             /\ current_date' = starting.date
             /\ state' = "in_office_session"]_vars

\* C25: a grace monitor (the one the manager refers to or an earlier one)
\* ends a session only when the record has grace_period_start set and
\* more than the record's grace limit has passed since then, hence never
\* within the grace window after the most recent disconnect.
MonitorEndsOnlyExpired ==
    [][\A d \in Dates :
          (/\ store[d].exists /\ store[d].is_active
           /\ ~store'[d].is_active
           /\ MonitorFires \/ OrphanFires)
              => /\ store[d].grace_period_start # NoTime
                 /\ now - store[d].grace_period_start
                       > store[d].grace_period_minutes * SecondsPerMinute]_vars

\* Two monitors are due, one of them from an earlier disconnect, and the
\* grace period of the latest disconnect has expired.
ExpiredGraceWithTwoMonitors ==
    /\ up /\ current_date # NoDate
    /\ grace_period_task # NoTime /\ now > grace_period_task
    /\ \E w \in orphan_tasks : now > w
    /\ check_grace_period_status(store, current_date, now).expired

\* C26: end_session with a date in memory returns True and leaves that
\* date's record inactive, with current_session_start, both baselines,
\* grace_period_start and paused_at cleared and total_minutes equal to the
\* override or, without one, to the elapsed-formula total of that instant;
\* the manager is idle without a date and no grace monitor stays pending.
EndSessionClosesEverything ==
    current_date # NoDate =>
        \A f \in FinalMinutesArgs :
            LET m == SessionManager_end_session(Manager, f, now)
                doc == m.store[current_date]
            IN  /\ m.ret
                /\ ~doc.is_active
                /\ doc.current_session_start = NoTime
                /\ doc.session_start_total_minutes = NoInt
                /\ doc.session_start_paused_minutes = NoInt
                /\ doc.grace_period_start = NoTime
                /\ doc.paused_at = NoTime
                /\ doc.total_minutes =
                      IF f # NoInt THEN f
                      ELSE _compute_running_total_minutes(
                               store[current_date], now)
                /\ m.state = "idle" /\ m.date = NoDate /\ m.start = NoTime
                /\ m.task = NoTime /\ m.orphans = {}

\* C27: recover_session resumes today's active record exactly when the
\* current SSID spells the office network; it then sets the in-memory
\* state to IN_GRACE_PERIOD if grace_period_start is set, else to
\* PAUSED_FOR_REAUTH if has_network_access is false, else to COMPLETED if
\* completed_4h is true, else to IN_OFFICE_SESSION, takes the date and the
\* session start from the record and writes no record.
RecoverResumesFromRecord ==
    \A c \in RawSsids :
        LET m == recover_session(Manager, c, grace_period_minutes, today, now)
            doc == store[today]
        IN  /\ m.ret <=> /\ doc.exists /\ doc.is_active
                         /\ _normalize_ssid(c) = _normalize_ssid(doc.ssid)
                         /\ is_office_ssid(c)
            /\ m.ret =>
                  /\ m.state =
                        IF doc.grace_period_start # NoTime
                        THEN "in_grace_period"
                        ELSE IF ~doc.has_network_access
                        THEN "paused_for_reauth"
                        ELSE IF doc.completed_4h THEN "completed"
                        ELSE "in_office_session"
                  /\ m.date = today
                  /\ m.start = doc.current_session_start
                  /\ m.store = store

\* The process is down on the office network while today's record is
\* active, completed and paused.
CompletedPausedAwaitsRecovery ==
    /\ ~up /\ is_office_ssid(cur_ssid)
    /\ store[today].exists /\ store[today].is_active
    /\ store[today].completed_4h /\ ~store[today].has_network_access
    /\ store[today].grace_period_start = NoTime

\* Values a stored total_minutes may have.
StoredTotals == 0..(MaxBaseline + 3)

\* Scenario A: started at 09:00:00 from nothing, no pause; and 11:00:00 in
\* seconds after the start.
ScenarioA ==
    [exists |-> TRUE, ssid |-> OfficeWifiName, is_active |-> TRUE,
     total_minutes |-> 0, completed_4h |-> FALSE,
     target_minutes |-> ManagerTargetMinutes, sessions_count |-> 1,
     paused_duration_minutes |-> 0, session_start_total_minutes |-> 0,
     session_start_paused_minutes |-> 0,
     grace_period_minutes |-> RecordGraceMinutes,
     grace_period_start |-> NoTime, has_network_access |-> TRUE,
     paused_at |-> NoTime, current_session_start |-> 0]

TwoHours == 2 * 60 * SecondsPerMinute

\* The running total of an active record with a baseline is the baseline
\* plus the whole minutes of elapsed minus paused time, whatever the
\* stored total.
FormulaFromBaseline ==
    /\ \A d \in Dates :
          (/\ store[d].exists /\ store[d].is_active
           /\ store[d].current_session_start # NoTime
           /\ store[d].session_start_total_minutes # NoInt)
          => LET doc == store[d]
                 elapsed == Max(0, now - doc.current_session_start)
                 paused ==
                     Max(0, doc.paused_duration_minutes
                              - doc.session_start_paused_minutes)
                         * SecondsPerMinute
                     + (IF ~doc.has_network_access /\ doc.paused_at # NoTime
                        THEN Max(0, now - doc.paused_at) ELSE 0)
             IN  /\ _compute_running_total_minutes(doc, now)
                       = doc.session_start_total_minutes
                           + (Max(0, elapsed - paused) \div SecondsPerMinute)
                 /\ \A x \in StoredTotals :
                       _compute_running_total_minutes(
                           [doc EXCEPT !.total_minutes = x], now)
                         = _compute_running_total_minutes(doc, now)
    /\ _compute_running_total_minutes(ScenarioA, TwoHours) = 120
    /\ ~(_compute_running_total_minutes(ScenarioA, TwoHours)
           >= ManagerTargetMinutes)

\* A timer tick that persists the running total stores exactly that total
\* and leaves the running total of the same instant as it was.
PersistedOnce ==
    \A d \in Dates :
        (/\ TickEvaluates(d)
         /\ store[d].session_start_total_minutes # NoInt
         /\ TimerTickStep)
        => /\ store'[d].total_minutes
                 = _compute_running_total_minutes(store[d], now)
           /\ _compute_running_total_minutes(store'[d], now)
                 = _compute_running_total_minutes(store[d], now)

\* C30: for an active record with a baseline the elapsed formula gives
\* session_start_total_minutes + floor(max(0, elapsed - paused) / 60)
\* whatever the stored total_minutes, so that persisting it again and
\* again never counts a minute twice; started at 09:00:00 without pauses
\* it gives 120 at 11:00:00, short of a target of 250.
RunningTotalFromBaseline == []FormulaFromBaseline /\ [][PersistedOnce]_vars

\* A tick has persisted minutes of the running session on top of a
\* baseline that was not zero.
PersistedAboveBaseline ==
    \E d \in Dates :
        /\ store[d].exists /\ store[d].is_active
        /\ store[d].session_start_total_minutes > 0
        /\ store[d].total_minutes > store[d].session_start_total_minutes
        /\ store[d].total_minutes
              = _compute_running_total_minutes(store[d], now)

\* C31: when the total cannot be recomputed (the store read raises, the
\* record is missing, or the record has no current_session_start or no
\* baseline) the computation yields the record's stored total_minutes,
\* and an end_session finalising in that situation persists that total.
TotalFallsBackToStored ==
    (up /\ current_date # NoDate) =>
        \A failed \in {"none", "get_daily_status"} :
            LET doc == store[current_date]
                cannot == \/ failed = "get_daily_status"
                          \/ ~doc.exists
                          \/ doc.current_session_start = NoTime
                          \/ doc.session_start_total_minutes = NoInt
                m == end_session_store_fails(Manager, NoInt, now, failed)
            IN  cannot =>
                  /\ _calculate_current_total_caught(Manager, now, failed)
                        = doc.total_minutes
                  /\ doc.current_session_start = NoTime
                        => _compute_running_total_minutes(doc, now)
                              = doc.total_minutes
                  /\ m.store[current_date].total_minutes = doc.total_minutes

\* The store call `failed` is made by start_session in this state.
StartSessionCalls(failed) ==
    failed = "get_daily_status"
        => (current_date # NoDate /\ current_date # today)

\* C32: a store call that raises inside start_session or end_session
\* makes the call a no-op: it returns False, the manager's state, date and
\* session start are as before, and so is every stored record.
FailedCallIsNoOp ==
    up =>
        /\ \A failed \in StartSessionStoreCalls :
              LET m == start_session_store_fails(Manager, OfficeWifiName,
                                                 today, now, failed)
              IN  StartSessionCalls(failed) =>
                    /\ ~m.ret /\ m.store = store
                    /\ m.state = state /\ m.date = current_date
                    /\ m.start = current_session_start
        /\ current_date # NoDate =>
              \A failed \in EndSessionStoreCalls :
                  LET m == end_session_store_fails(Manager, NoInt, now, failed)
                  IN  /\ ~m.ret /\ m.store = store
                      /\ m.state = state /\ m.date = current_date
                      /\ m.start = current_session_start

\* C33: check_network_connectivity writes only on an edge of the active
\* record of the in-memory date: stored access true and probe false set
\* has_network_access = false and paused_at = now and the state
\* PAUSED_FOR_REAUTH; stored access false and probe true clear paused_at
\* and set has_network_access = true and the state IN_OFFICE_SESSION,
\* touching nothing else but paused_duration_minutes; with the probe equal
\* to the stored flag, or the record missing or inactive, no record
\* changes.
ConnectivityWritesOnEdges ==
    up =>
      \A has_internet \in BOOLEAN :
        LET m == check_network_connectivity(Manager, has_internet, now)
            d == current_date
        IN  IF d = NoDate THEN m.store = store
            ELSE IF ~store[d].exists \/ ~store[d].is_active
            THEN m.store = store
            ELSE IF store[d].has_network_access /\ ~has_internet
            THEN /\ m.store =
                      [store EXCEPT ![d] =
                          [@ EXCEPT !.has_network_access = FALSE,
                                    !.paused_at = now]]
                 /\ m.state = "paused_for_reauth"
            ELSE IF ~store[d].has_network_access /\ has_internet
            THEN /\ [m.store EXCEPT ![d] =
                        [@ EXCEPT !.paused_duration_minutes =
                                      store[d].paused_duration_minutes]]
                      = [store EXCEPT ![d] =
                            [@ EXCEPT !.has_network_access = TRUE,
                                      !.paused_at = NoTime]]
                 /\ m.state = "in_office_session"
            ELSE m.store = store

\* The running manager's record is active and has been paused for a
\* while.
PausedForAWhile ==
    /\ up /\ current_date # NoDate
    /\ store[current_date].exists /\ store[current_date].is_active
    /\ ~store[current_date].has_network_access
    /\ store[current_date].paused_at # NoTime
    /\ now > store[current_date].paused_at

\* No manager call, monitor step or timer iteration is under way.
NoCallInProgress ==
    monitor = Asleep /\ starting = NoCall /\ timer_doc = NoRead

\* C34: for the record of the manager's date, _calculate_current_total
\* and _compute_running_total_minutes give the same total, at the present
\* instant and at every later one if nothing else happens.
TwoFormulasAgree ==
    (/\ up /\ NoCallInProgress
     /\ current_date # NoDate /\ store[current_date].exists) =>
        \A t \in LaterInstants :
            _calculate_current_total(Manager, t)
                = _compute_running_total_minutes(store[current_date], t)

IsStartSession(call) == call = "start_session"

\* C35: an iteration of the Wi-Fi poller that finds the office network
\* after a non-office one calls start_session once, and the day's
\* sessions_count grows by exactly one.
ConnectCountsOnce ==
    [][(/\ up /\ previous_ssid # NotPolling
        /\ ~is_office_ssid(previous_ssid) /\ is_office_ssid(cur_ssid)
        /\ previous_ssid' = cur_ssid
        /\ WifiPoll)
          => /\ Len(SelectSeq(wifi_polling_loop(Manager, previous_ssid,
                                                cur_ssid, today, now).calls,
                              IsStartSession)) = 1
             /\ store'[today].sessions_count
                   = store[today].sessions_count + 1]_vars

\* C36: a record with completed_4h = true has total_minutes at or above
\* the target_minutes stored in that record.
CompletedMeansTargetReached ==
    \A d \in Dates :
        (store[d].exists /\ store[d].completed_4h)
            => store[d].total_minutes >= store[d].target_minutes

\* C37: a record with is_active = false has grace_period_start and
\* paused_at cleared and has_network_access = true, whichever of
\* end_session and close_stale_sessions closed it.
InactiveHasNoMarkers ==
    \A d \in Dates :
        (store[d].exists /\ ~store[d].is_active)
            => /\ store[d].grace_period_start = NoTime
               /\ store[d].paused_at = NoTime
               /\ store[d].has_network_access

\* C38: no record is inactive with total_minutes at or above the target
\* (the record's target_minutes, or the target the timer completes a
\* record against) and completed_4h = false: a session ended with such a
\* total before a timer tick has seen it is completed all the same.
EndedAtTargetIsCompleted ==
    \A d \in Dates :
        (/\ store[d].exists /\ ~store[d].is_active
         /\ \/ store[d].total_minutes >= store[d].target_minutes
            \/ store[d].total_minutes >= _resolve_target_minutes)
            => store[d].completed_4h

\* C39: while the machine stays on the office network, one iteration of
\* the Wi-Fi poller leaves the record of the current calendar date active,
\* whatever made it inactive or missing (a failed start, a grace expiry,
\* a lost in-memory date, the change of date at midnight).
SelfHealRestoresToday ==
    (/\ up /\ previous_ssid # NotPolling
     /\ is_office_ssid(previous_ssid) /\ is_office_ssid(cur_ssid)) =>
        LET m == wifi_polling_loop(Manager, previous_ssid, cur_ssid,
                                   today, now).m
        IN  m.store[today].exists /\ m.store[today].is_active

====
